---- MODULE Spec2Model ----
(***************************************************************************)
(* QuickTips: table extraction (quicktips.py) and fuzzy evaluation         *)
(* (evaluate_quicktips.py).                                                *)
(*                                                                         *)
(* Text is a sequence of one-character strings.  The en dash is the        *)
(* character EnDash.  Python's None is the value None.                     *)
(***************************************************************************)
EXTENDS Integers, Sequences, FiniteSets, TLC

VARIABLES
    pc,          \* position of the modelled run
    name,        \* normalize_team_name: the argument of the first call
    norm1,       \* normalize_team_name(name)
    norm2,       \* normalize_team_name(norm1)
    html,        \* parse_quicktips: the tables, each a sequence of rows of <td> texts
    rows_out,    \* parse_quicktips: tickets before the seen-set pass
    uniq,        \* parse_quicktips: the returned tickets
    fd_matches,  \* the records fetched from the results feed
    ratio,       \* fuzz.token_sort_ratio values of the current find_best_match call
    mdata,       \* main: the matched record, as its index in fd_matches, None if none
    score_match, \* main: integer score returned by find_best_match
    tip,         \* main: tip of the current ticket
    outc,        \* main: outcome symbol of the current ticket
    symbol,      \* main: verdict symbol of the current ticket
    ok,          \* main: counter of correct tickets
    bad,         \* main: counter of incorrect tickets
    pend,        \* main: counter of tickets without result
    out_rows,    \* main: report rows
    ntickets,    \* main: len(df)
    home_csv,    \* find_best_match: home part of the ticket's match label
    away_csv     \* find_best_match: away part of the ticket's match label

vars == <<pc, name, norm1, norm2, html, rows_out, uniq, fd_matches, ratio, mdata,
          score_match, tip, outc, symbol, ok, bad, pend, out_rows, ntickets,
          home_csv, away_csv>>

normVars == <<name, norm1, norm2>>
parseVars == <<html, rows_out, uniq>>
evalVars == <<fd_matches, ratio, mdata, score_match, tip, outc, symbol, ok, bad, pend,
              out_rows, ntickets>>
splitVars == <<home_csv, away_csv>>

\* Python's None, for optional numbers and indices
None == -1
EnDash == "EN"

(***************************************************************************)
(* Bounds of the model.                                                    *)
(***************************************************************************)
MaxNameLen == 4
MaxCells == 7
MaxTeamCells == 3
MaxRows == 7
MaxDupRows == 4
MaxResults == 3
MaxFeed == 1
MaxTickets == 2

(***************************************************************************)
(* Characters.                                                             *)
(***************************************************************************)
Digits == {"0", "1", "2", "3", "4", "5", "6", "7", "8", "9"}

DigitVal(c) ==
    CASE c = "0" -> 0 [] c = "1" -> 1 [] c = "2" -> 2 [] c = "3" -> 3 [] c = "4" -> 4
      [] c = "5" -> 5 [] c = "6" -> 6 [] c = "7" -> 7 [] c = "8" -> 8 [] c = "9" -> 9

UpperLetters == {"A", "B", "C", "F", "J", "R", "S", "X"}
LowerLetters == {"a", "b", "c", "f", "i", "j", "k", "o", "r", "s", "x"}

IsLetter(c) == c \in UpperLetters \cup LowerLetters
IsSpace(c) == c = " "
IsDash(c) == c \in {"-", EnDash}

\* str.lower() of one character
LowerChar(c) ==
    CASE c = "A" -> "a" [] c = "B" -> "b" [] c = "C" -> "c" [] c = "F" -> "f"
      [] c = "J" -> "j" [] c = "R" -> "r" [] c = "S" -> "s" [] c = "X" -> "x"
      [] OTHER -> c

lower(s) == [k \in 1..Len(s) |-> LowerChar(s[k])]

\* s[from:] of Python, 1-based
Drop(s, from) == SubSeq(s, from, Len(s))

StartsWith(s, k, pat) ==
    /\ k + Len(pat) - 1 <= Len(s)
    /\ SubSeq(s, k, k + Len(pat) - 1) = pat

\* str.replace(pat, ""): leftmost non-overlapping occurrences, one pass
RECURSIVE RemoveFrom(_, _, _)
RemoveFrom(s, k, pat) ==
    IF k > Len(s) THEN <<>>
    ELSE IF StartsWith(s, k, pat) THEN RemoveFrom(s, k + Len(pat), pat)
    ELSE <<s[k]>> \o RemoveFrom(s, k + 1, pat)

RemoveAll(s, pat) == RemoveFrom(s, 1, pat)

\* str.strip() over the blank
RECURSIVE lstrip(_)
lstrip(s) == IF s # <<>> /\ IsSpace(s[1]) THEN lstrip(Tail(s)) ELSE s

RECURSIVE rstrip(_)
rstrip(s) ==
    IF s # <<>> /\ IsSpace(s[Len(s)]) THEN rstrip(SubSeq(s, 1, Len(s) - 1)) ELSE s

strip(s) == rstrip(lstrip(s))

\* re.sub(r"\s+", " ", s)
RECURSIVE CollapseSpaces(_)
CollapseSpaces(s) ==
    IF s = <<>> THEN <<>>
    ELSE IF IsSpace(s[1]) /\ Len(s) >= 2 /\ IsSpace(s[2]) THEN CollapseSpaces(Tail(s))
    ELSE <<s[1]>> \o CollapseSpaces(Tail(s))

normspace(s) == strip(CollapseSpaces(s))

(***************************************************************************)
(* evaluate_quicktips.py: normalize_team_name                              *)
(***************************************************************************)
IsAlnumOrSpace(c) == c \in LowerLetters \cup Digits \cup {" "}

\* re.sub(r"[^a-z0-9 ]+", " ", s): every run of other characters becomes one blank
RECURSIVE StripSpecial(_)
StripSpecial(s) ==
    IF s = <<>> THEN <<>>
    ELSE IF IsAlnumOrSpace(s[1]) THEN <<s[1]>> \o StripSpecial(Tail(s))
    ELSE IF Len(s) >= 2 /\ ~IsAlnumOrSpace(s[2]) THEN StripSpecial(Tail(s))
    ELSE <<" ">> \o StripSpecial(Tail(s))

normalize_team_name(s) ==
    LET l == lower(s)
        r1 == RemoveAll(l, <<" ", "f", "c">>)
        r2 == RemoveAll(r1, <<"c", "f", " ">>)
        r3 == RemoveAll(r2, <<" ", "s", "c">>)
        r4 == RemoveAll(r3, <<" ", "a", "f", "c">>)
    IN strip(CollapseSpaces(StripSpecial(r4)))

NameAlphabet == {"a", "f", "c", "s", "F", " ", "-"}

TextsUpTo(alphabet, n) == UNION {[1..m -> alphabet] : m \in 0..n}

Names == TextsUpTo(NameAlphabet, MaxNameLen)

(***************************************************************************)
(* quicktips.py: cell classification                                       *)
(***************************************************************************)
\* length of the run of characters of the set chars that starts at position k
RECURSIVE RunLen(_, _, _)
RunLen(s, k, chars) ==
    IF k <= Len(s) /\ s[k] \in chars THEN 1 + RunLen(s, k + 1, chars) ELSE 0

Blanks == {" "}

\* int() of a run of decimal digits
RECURSIVE IntOf(_)
IntOf(ds) ==
    IF ds = <<>> THEN 0 ELSE 10 * IntOf(SubSeq(ds, 1, Len(ds) - 1)) + DigitVal(ds[Len(ds)])

\* PERC_RE = (\d{1,3})\s*% matches at position k
PercMatchAt(s, k) ==
    LET d == RunLen(s, k, Digits)
        w == RunLen(s, k + d, Blanks)
    IN /\ d \in 1..3
       /\ k + d + w <= Len(s)
       /\ s[k + d + w] = "%"

parse_percent(cell_text) ==
    LET hits == {k \in 1..Len(cell_text) : PercMatchAt(cell_text, k)}
    IN IF hits = {} THEN None
       ELSE LET k == CHOOSE h \in hits : \A g \in hits : h <= g
                v == IntOf(SubSeq(cell_text, k, k + RunLen(cell_text, k, Digits) - 1))
            IN IF 0 <= v /\ v <= 100 THEN v ELSE None

\* ^\s*\d{1,2}<sep>\d{lo,2} matched from the start; the position after it, 0 if no match
NumPairEnd(s, sep, lo) ==
    LET w == RunLen(s, 1, Blanks)
        d1 == RunLen(s, 1 + w, Digits)
        d2 == RunLen(s, 2 + w + d1, Digits)
    IN IF /\ d1 \in 1..2
          /\ 1 + w + d1 <= Len(s)
          /\ s[1 + w + d1] = sep
          /\ d2 \in lo..2
       THEN 2 + w + d1 + d2 ELSE 0

\* DATE_TOKEN_RE = ^\s*\d{1,2}\.\d{1,2}\s*$
IsDateToken(s) ==
    LET e == NumPairEnd(s, ".", 1)
    IN e > 0 /\ e + RunLen(s, e, Blanks) = Len(s) + 1

\* TIME_TOKEN_RE = ^\s*\d{1,2}:\d{2}\s*$
IsTimeToken(s) ==
    LET e == NumPairEnd(s, ":", 2)
    IN e > 0 /\ e + RunLen(s, e, Blanks) = Len(s) + 1

IsNoiseChar(c) == c \in Digits \cup {"%", ":", "|", "-", EnDash, "."}

is_noise_cell(c) ==
    \/ Len(c) <= 1
    \/ IsDateToken(c)
    \/ IsTimeToken(c)
    \/ \A k \in 1..Len(c) : IsNoiseChar(c[k])

plausible_team_text(c) ==
    /\ ~is_noise_cell(c)
    /\ \E k \in 1..Len(c) : IsLetter(c[k])
    /\ Len(strip(c)) >= 3

\* DATE_PREFIX_RE.sub("", s), DATE_PREFIX_RE = ^\s*\d{1,2}\.\d{1,2}\s+
StripDatePrefix(s) ==
    LET e == NumPairEnd(s, ".", 1)
        w == IF e > 0 THEN RunLen(s, e, Blanks) ELSE 0
    IN IF e > 0 /\ w >= 1 THEN Drop(s, e + w) ELSE s

Separator == <<" ", EnDash, " ">>

\* DASH_FIX_RE.sub(" - ", s) with the en dash, DASH_FIX_RE = \s*[-EnDash]\s*
RECURSIVE DashFix(_, _)
DashFix(s, k) ==
    IF k > Len(s) THEN <<>>
    ELSE LET w == RunLen(s, k, Blanks)
         IN IF k + w <= Len(s) /\ IsDash(s[k + w])
            THEN Separator \o DashFix(s, k + w + 1 + RunLen(s, k + w + 1, Blanks))
            ELSE <<s[k]>> \o DashFix(s, k + 1)

clean_match_name(s) == normspace(DashFix(StripDatePrefix(s), 1))

(***************************************************************************)
(* quicktips.py: extract_teams_from_cells                                  *)
(***************************************************************************)
Range(f) == {f[k] : k \in DOMAIN f}

Least(S) == CHOOSE x \in S : \A y \in S : x <= y
Greatest(S) == CHOOSE x \in S : \A y \in S : y <= x

\* the plausible team cells outside the probability run, in cell order
RECURSIVE Candidates(_, _, _)
Candidates(cells, perc_set, k) ==
    IF k > Len(cells) THEN <<>>
    ELSE LET c == normspace(cells[k])
         IN (IF k \notin perc_set /\ plausible_team_text(c) THEN <<c>> ELSE <<>>)
            \o Candidates(cells, perc_set, k + 1)

\* drop a candidate equal, up to case, to the one kept just before it
RECURSIVE DedupAdjacent(_)
DedupAdjacent(candidates) ==
    IF candidates = <<>> THEN <<>>
    ELSE LET dedup == DedupAdjacent(SubSeq(candidates, 1, Len(candidates) - 1))
             c == candidates[Len(candidates)]
         IN IF dedup = <<>> \/ lower(dedup[Len(dedup)]) # lower(c)
            THEN Append(dedup, c) ELSE dedup

\* AwayScan scanning from the front: the first candidate that differs from home
RECURSIVE AwayScanFirst(_, _, _)
AwayScanFirst(dedup, home, k) ==
    IF k = 0 THEN <<>>
    ELSE LET earlier == AwayScanFirst(dedup, home, k - 1)
         IN IF earlier # <<>> THEN earlier
            ELSE IF lower(dedup[k]) # lower(home) THEN dedup[k]
            ELSE <<>>

\* for c in reversed(dedup): the first c that differs from home; the empty text if none
RECURSIVE AwayScan(_, _, _)
AwayScan(dedup, home, k) ==
    IF k = 0 THEN <<>>
    ELSE IF lower(dedup[k]) # lower(home) THEN dedup[k]
    ELSE AwayScan(dedup, home, k - 1)

QuestionMark == <<"?">>

extract_teams_from_cells(cells, perc_indices) ==
    LET dedup == DedupAdjacent(Candidates(cells, Range(perc_indices), 1))
    IN IF dedup = <<>> THEN QuestionMark
       ELSE LET home == dedup[1]
                found == AwayScan(dedup, home, Len(dedup))
                away == IF found # <<>> THEN found
                        ELSE IF Len(dedup) >= 2 THEN dedup[2] ELSE dedup[1]
            IN clean_match_name(home \o Separator \o away)

(***************************************************************************)
(* quicktips.py: is_quicktips_table and parse_quicktips                    *)
(***************************************************************************)
ScanRows == 6
MinCells == 5
MinRun == 3

NormCells(tds) == [k \in 1..Len(tds) |-> normspace(tds[k])]

\* the streak of percent cells reaches MinRun somewhere from cell k on
RECURSIVE StreakHits(_, _, _)
StreakHits(cells, k, streak) ==
    IF k > Len(cells) THEN FALSE
    ELSE IF parse_percent(cells[k]) # None
         THEN streak + 1 >= MinRun \/ StreakHits(cells, k + 1, streak + 1)
         ELSE StreakHits(cells, k + 1, 0)

is_quicktips_table(table) ==
    \E r \in 1..Len(table) :
        /\ r <= ScanRows
        /\ Len(table[r]) >= MinCells
        /\ StreakHits(NormCells(table[r]), 1, 0)

\* [i for i, c in enumerate(cells) if parse_percent(c) is not None]
RECURSIVE PercIdx(_, _)
PercIdx(cells, k) ==
    IF k > Len(cells) THEN <<>>
    ELSE (IF parse_percent(cells[k]) # None THEN <<k>> ELSE <<>>) \o PercIdx(cells, k + 1)

\* itertools.groupby(enumerate(perc_idx), key = position - value): the runs in order
RECURSIVE GroupRuns(_, _)
GroupRuns(perc_idx, k) ==
    IF k > Len(perc_idx) THEN <<>>
    ELSE LET rest == GroupRuns(perc_idx, k + 1)
         IN IF rest # <<>> /\ (k + 1) - perc_idx[k + 1] = k - perc_idx[k]
            THEN <<(<<perc_idx[k]>> \o rest[1])>> \o Tail(rest)
            ELSE <<(<<perc_idx[k]>>)>> \o rest

\* BestRun with >= for >: a later run of the same length replaces the best one
RECURSIVE BestRunLast(_, _, _)
BestRunLast(runs, k, best_run) ==
    IF k > Len(runs) THEN best_run
    ELSE BestRunLast(runs, k + 1,
                     IF Len(runs[k]) >= MinRun /\ Len(runs[k]) >= Len(best_run)
                     THEN runs[k] ELSE best_run)

\* keep a run only if it is long enough and strictly longer than the best so far
RECURSIVE BestRun(_, _, _)
BestRun(runs, k, best_run) ==
    IF k > Len(runs) THEN best_run
    ELSE BestRun(runs, k + 1,
                 IF Len(runs[k]) >= MinRun /\ Len(runs[k]) > Len(best_run)
                 THEN runs[k] ELSE best_run)

\* parse_percent(c) or 0
PercentOrZero(c) == LET v == parse_percent(c) IN IF v = None THEN 0 ELSE v

TipLabels == <<"1", "X", "2">>

\* MaxKey with >= for >: the last key with the largest value
RECURSIVE MaxKeyLast(_, _, _)
MaxKeyLast(probs, k, best) ==
    IF k > Len(TipLabels) THEN best
    ELSE MaxKeyLast(probs, k + 1,
                    IF probs[TipLabels[k]] >= probs[best] THEN TipLabels[k] ELSE best)

\* max(probs, key=probs.get): the first key, in insertion order, with the largest value
RECURSIVE MaxKey(_, _, _)
MaxKey(probs, k, best) ==
    IF k > Len(TipLabels) THEN best
    ELSE MaxKey(probs, k + 1,
                IF probs[TipLabels[k]] > probs[best] THEN TipLabels[k] ELSE best)

\* one iteration of the loop over <tr>: the ticket appended to rows_out, if any
RowTickets(tds) ==
    IF Len(tds) < MinCells THEN <<>>
    ELSE LET cells == NormCells(tds)
             best_run == BestRun(GroupRuns(PercIdx(cells, 1), 1), 1, <<>>)
         IN IF Len(best_run) < MinRun THEN <<>>
            ELSE LET p1 == PercentOrZero(cells[best_run[1]])
                     pX == PercentOrZero(cells[best_run[2]])
                     p2 == PercentOrZero(cells[best_run[3]])
                     probs == [l \in Range(TipLabels) |->
                                  IF l = "1" THEN p1 ELSE IF l = "X" THEN pX ELSE p2]
                 IN << [match |-> extract_teams_from_cells(cells, best_run),
                        tip |-> MaxKey(probs, 2, TipLabels[1]),
                        p1 |-> p1, pX |-> pX, p2 |-> p2] >>

RECURSIVE TableTickets(_, _)
TableTickets(table, r) ==
    IF r > Len(table) THEN <<>>
    ELSE RowTickets(table[r]) \o TableTickets(table, r + 1)

\* the loop over the tables: rows_out before the seen-set pass
RECURSIVE AllTickets(_, _)
AllTickets(tables, t) ==
    IF t > Len(tables) THEN <<>>
    ELSE (IF is_quicktips_table(tables[t]) THEN TableTickets(tables[t], 1) ELSE <<>>)
         \o AllTickets(tables, t + 1)

TicketKey(r) == <<r.match, r.tip>>

\* UniqueTickets comparing only with the ticket kept just before
RECURSIVE UniqueTicketsAdjacent(_)
UniqueTicketsAdjacent(rows) ==
    IF rows = <<>> THEN <<>>
    ELSE LET kept == UniqueTicketsAdjacent(SubSeq(rows, 1, Len(rows) - 1))
             r == rows[Len(rows)]
         IN IF kept # <<>> /\ TicketKey(kept[Len(kept)]) = TicketKey(r) THEN kept
            ELSE Append(kept, r)

\* the seen-set pass: keep a ticket unless its (match, tip) was seen before
RECURSIVE UniqueTickets(_)
UniqueTickets(rows) ==
    IF rows = <<>> THEN <<>>
    ELSE LET kept == UniqueTickets(SubSeq(rows, 1, Len(rows) - 1))
             r == rows[Len(rows)]
         IN IF TicketKey(r) \in {TicketKey(u) : u \in Range(kept)} THEN kept
            ELSE Append(kept, r)

(***************************************************************************)
(* normalize_team_name called twice, the second time on its own result.    *)
(***************************************************************************)
IdleParse == html = <<>> /\ rows_out = <<>> /\ uniq = <<>>
IdleEval ==
    /\ fd_matches = <<>> /\ ratio = <<>> /\ mdata = None /\ score_match = 0
    /\ tip = "" /\ outc = "" /\ symbol = ""
    /\ ok = 0 /\ bad = 0 /\ pend = 0 /\ out_rows = <<>> /\ ntickets = 0
IdleNorm == name = <<>> /\ norm1 = <<>> /\ norm2 = <<>>
IdleSplit == home_csv = <<>> /\ away_csv = <<>>

InitNorm ==
    /\ pc = "start"
    /\ name \in Names
    /\ norm1 = <<>> /\ norm2 = <<>>
    /\ IdleParse /\ IdleEval /\ IdleSplit

\* first call: normalize_team_name(name)
Normalize ==
    /\ pc = "start"
    /\ norm1' = normalize_team_name(name)
    /\ pc' = "normalized"
    /\ UNCHANGED <<name, norm2, parseVars, evalVars, splitVars>>

\* second call, on the result of the first
NormalizeAgain ==
    /\ pc = "normalized"
    /\ norm2' = normalize_team_name(norm1)
    /\ pc' = "renormalized"
    /\ UNCHANGED <<name, norm1, parseVars, evalVars, splitVars>>

NextNorm == Normalize \/ NormalizeAgain

SpecNorm == InitNorm /\ [][NextNorm]_vars

(***************************************************************************)
(* parse_quicktips as one step, over rows of <td> texts.                   *)
(***************************************************************************)
P40 == <<"4", "0", "%">>
P25 == <<"2", "5", " ", "%">>
P35 == <<" ", "3", "5", "%">>
P150 == <<"1", "5", "0", "%">>
Ajax == <<"A", "j", "a", "x">>
AjaxUpper == <<"A", "J", "A", "X">>
Bari == <<"B", "a", "r", "i">>
Cska == <<"C", "s", "k", "a">>
DatedAjax == <<"1", "2", ".", "1", "0", " ", "A", "j", "a", "x">>
DateCell == <<"1", "2", ".", "1", "0">>
TimeCell == <<"2", "0", ":", "0", "0">>

\* the sequences of n elements of S
SeqsOfLen(S, n) == [1..n -> S]

SeqsBetween(S, lo, hi) == UNION {SeqsOfLen(S, n) : n \in lo..hi}

IdleStart ==
    pc = "start" /\ rows_out = <<>> /\ uniq = <<>> /\ IdleNorm /\ IdleEval /\ IdleSplit

\* one table of one row; the cells vary over percent cells, valid or out of range, and a name
RunCells == {P40, P25, P150, Ajax}

InitRun ==
    /\ IdleStart
    /\ \E row \in SeqsBetween(RunCells, MinCells - 1, MaxCells) : html = << <<row>> >>

\* one table of one row: three percent cells with other cells before and after them
TeamCells == {Ajax, AjaxUpper, Bari, Cska, DatedAjax, DateCell}

InitTeams ==
    /\ IdleStart
    /\ \E other \in SeqsBetween(TeamCells, MinCells - MinRun, MaxTeamCells) :
         \E cut \in 0..Len(other) :
            html = << << SubSeq(other, 1, cut) \o <<P40, P25, P35>>
                         \o SubSeq(other, cut + 1, Len(other)) >> >>

\* one table: rows with or without a percent run, then a row with any three percent cells
PercCells == {P40, P25, P35}
RowRun == <<Ajax, Bari, P40, P25, P35>>
RowNoRun == <<DateCell, Ajax, P40, P25, TimeCell>>
RowShort == <<Ajax, P40, P25, P35>>

InitTable ==
    /\ IdleStart
    /\ \E before \in SeqsBetween({RowRun, RowNoRun}, 0, MaxRows - 1) :
         \E last \in {<<Cska, Bari>> \o ps : ps \in SeqsOfLen(PercCells, MinRun)}
                     \cup {RowNoRun, RowShort} :
            html = << Append(before, last) >>

\* up to two tables whose rows repeat (match, tip) pairs with different percentages
DupRows == {RowRun,
            <<Ajax, Bari, P40, P35, P25>>,
            <<Ajax, Bari, P25, P35, P40>>,
            <<Cska, Bari, P40, P25, P35>>}

InitDup ==
    /\ IdleStart
    /\ \E rows \in SeqsBetween(DupRows, 0, MaxDupRows) :
         \E cut \in 0..Len(rows) :
            html \in { << rows >>,
                       << SubSeq(rows, 1, cut), SubSeq(rows, cut + 1, Len(rows)) >> }

ParseQuicktips ==
    /\ pc = "start"
    /\ rows_out' = AllTickets(html, 1)
    /\ uniq' = UniqueTickets(rows_out')
    /\ pc' = "parsed"
    /\ UNCHANGED <<html, normVars, evalVars, splitVars>>

NextParse == ParseQuicktips

SpecRun == InitRun /\ [][NextParse]_vars
SpecTeams == InitTeams /\ [][NextParse]_vars
SpecTable == InitTable /\ [][NextParse]_vars
SpecDup == InitDup /\ [][NextParse]_vars

(***************************************************************************)
(* evaluate_quicktips.py: find_best_match, status_done, decide_outcome_1x2 *)
(*                                                                         *)
(* A record of the feed is [status, home, away], home and away being the   *)
(* full-time goals or None.  The similarity of the ticket's labels to a    *)
(* record's team names comes from fuzz.token_sort_ratio: ratio[k] is       *)
(* [h, a], the two values for record k.  Scores are kept doubled, so that  *)
(* the average (h + a) / 2 stays an integer.                               *)
(***************************************************************************)
FUZZY_THRESHOLD == 70

\* BestScan with >= for >: a later record with the same score replaces the best one
RECURSIVE BestScanLast(_, _, _, _)
BestScanLast(ratios, k, best, best_score2) ==
    IF k > Len(ratios) THEN <<best, best_score2>>
    ELSE LET score2 == ratios[k].h + ratios[k].a
         IN IF score2 >= best_score2
            THEN BestScanLast(ratios, k + 1, k, score2)
            ELSE BestScanLast(ratios, k + 1, best, best_score2)

\* the loop of find_best_match: the best record so far and twice its score
RECURSIVE BestScan(_, _, _, _)
BestScan(ratios, k, best, best_score2) ==
    IF k > Len(ratios) THEN <<best, best_score2>>
    ELSE LET score2 == ratios[k].h + ratios[k].a
         IN IF score2 > best_score2
            THEN BestScan(ratios, k + 1, k, score2)
            ELSE BestScan(ratios, k + 1, best, best_score2)

\* <<the record or None, the integer score>>
find_best_match(ratios) ==
    LET scan == BestScan(ratios, 1, None, -2)
        best == scan[1]
        best_score2 == scan[2]
    IN << IF best_score2 >= 2 * FUZZY_THRESHOLD THEN best ELSE None,
          IF best_score2 >= 0 THEN best_score2 \div 2 ELSE 0 >>

FinalStatuses == {"FINISHED", "AWARDED"}

\* status_done looking at the score only
status_done_any_status(m) == m.home # None

status_done(m) == m.status \in FinalStatuses /\ m.home # None

decide_outcome_1x2(m) ==
    IF m.home = None \/ m.away = None THEN "?"
    ELSE IF m.home > m.away THEN "1"
    ELSE IF m.home < m.away THEN "2"
    ELSE "X"

Statuses == {"SCHEDULED", "IN_PLAY", "FINISHED", "AWARDED"}
Goals == {None, 0, 1}
Records == [status : Statuses, home : Goals, away : Goals]
Tips == {"1", "X", "2"}

SymCorrect == "CORRECT"
SymIncorrect == "INCORRECT"
SymUnresolved == "UNRESOLVED"

\* similarity values around the threshold, and the two ends
SimValues == {0, 69, 70, 71, 100}
EvalSimValues == {69, 70, 71}

(***************************************************************************)
(* find_best_match called on its own.                                      *)
(***************************************************************************)
IdleLoop ==
    /\ ratio = <<>> /\ mdata = None /\ score_match = 0
    /\ tip = "" /\ outc = "" /\ symbol = ""
    /\ ok = 0 /\ bad = 0 /\ pend = 0 /\ out_rows = <<>>

InitMatch ==
    /\ pc = "start"
    /\ fd_matches \in SeqsBetween({[status |-> "FINISHED", home |-> 1, away |-> 0]},
                                  0, MaxResults)
    /\ ntickets = 0
    /\ IdleLoop /\ IdleNorm /\ IdleParse /\ IdleSplit

FindBestMatch ==
    /\ pc = "start"
    /\ \E ratios \in SeqsOfLen([h : SimValues, a : SimValues], Len(fd_matches)) :
          /\ ratio' = ratios
          /\ mdata' = find_best_match(ratios)[1]
          /\ score_match' = find_best_match(ratios)[2]
    /\ pc' = "matched"
    /\ UNCHANGED <<fd_matches, tip, outc, symbol, ok, bad, pend, out_rows, ntickets, splitVars,
                   normVars, parseVars>>

NextMatch == FindBestMatch

SpecMatch == InitMatch /\ [][NextMatch]_vars

(***************************************************************************)
(* main: the evaluation loop.  The feed is fetched before the loop; each   *)
(* iteration reads one ticket, its tip and the similarities of its label   *)
(* being the iteration's input.                                            *)
(***************************************************************************)
InitEval ==
    /\ pc = "loop"
    /\ fd_matches \in SeqsBetween(Records, 0, MaxFeed)
    /\ ntickets \in 0..MaxTickets
    /\ IdleLoop /\ IdleNorm /\ IdleParse /\ IdleSplit

InitOneTicket ==
    /\ pc = "loop"
    /\ fd_matches \in SeqsBetween(Records, 0, MaxFeed)
    /\ ntickets = 1
    /\ IdleLoop /\ IdleNorm /\ IdleParse /\ IdleSplit

EvalTicket ==
    /\ pc = "loop"
    /\ Len(out_rows) < ntickets
    /\ \E t \in Tips :
       \E ratios \in SeqsOfLen([h : EvalSimValues, a : EvalSimValues], Len(fd_matches)) :
          LET found == find_best_match(ratios)
              m == found[1]
              done == m # None /\ status_done(fd_matches[m])
              o == IF done THEN decide_outcome_1x2(fd_matches[m]) ELSE "?"
              sym == IF ~done THEN SymUnresolved
                     ELSE IF o = t THEN SymCorrect ELSE SymIncorrect
          IN /\ tip' = t
             /\ mdata' = m
             /\ score_match' = found[2]
             /\ outc' = o
             /\ symbol' = sym
             /\ pend' = IF m = None THEN pend + 1 ELSE pend
             /\ ok' = IF done /\ o = t THEN ok + 1 ELSE ok
             /\ bad' = IF done /\ o # t THEN bad + 1 ELSE bad
             /\ out_rows' = Append(out_rows,
                                   [tip |-> t, fd |-> m, outcome |-> o, symbol |-> sym])
    /\ UNCHANGED <<pc, fd_matches, ratio, ntickets, normVars, parseVars, splitVars>>

\* the loop is over: the summary is printed from ok, bad and pend
Summary ==
    /\ pc = "loop"
    /\ Len(out_rows) = ntickets
    /\ pc' = "done"
    /\ UNCHANGED <<normVars, parseVars, evalVars, splitVars>>

NextEval == EvalTicket \/ Summary

SpecEval == InitEval /\ [][NextEval]_vars
SpecOneTicket == InitOneTicket /\ [][NextEval]_vars

(***************************************************************************)
(* evaluate_quicktips.py: split_match, on the label of a parsed ticket.    *)
(***************************************************************************)
\* the first position from k on where s holds the character c; Len(s) + 1 if none
RECURSIVE Find(_, _, _)
Find(s, c, k) == IF k > Len(s) \/ s[k] = c THEN k ELSE Find(s, c, k + 1)

\* parts[0] and parts[1] of match.split(sep), stripped
SplitOn(match, sep) ==
    LET cut1 == Find(match, sep, 1)
        cut2 == Find(match, sep, cut1 + 1)
    IN << strip(SubSeq(match, 1, cut1 - 1)), strip(SubSeq(match, cut1 + 1, cut2 - 1)) >>

split_match(match) ==
    IF EnDash \in Range(match) THEN SplitOn(match, EnDash)
    ELSE IF "-" \in Range(match) THEN SplitOn(match, "-")
    ELSE << strip(match), <<>> >>

HyphenName == <<"B", "a", "-", "r", "i">>
EnDashName == <<"C", "s", EnDash, "k", "a">>
SpacedHyphenName == <<"J", "a", " ", "-", " ", "x">>
TwoWordName == <<"A", "j", " ", "a", "x">>

\* one table of one row: a home cell, another team's cell, three percent cells
RoundTripCells == {Ajax, Bari, Cska, DatedAjax, HyphenName, EnDashName, SpacedHyphenName,
                   TwoWordName}

InitRoundTrip ==
    /\ IdleStart
    /\ \E home \in RoundTripCells : \E away \in RoundTripCells :
          /\ lower(home) # lower(away)
          /\ html = << << <<home, away, P40, P25, P35>> >> >>

\* find_best_match splits the label of the ticket read back from the CSV
SplitMatch ==
    /\ pc = "parsed"
    /\ Len(uniq) = 1
    /\ home_csv' = split_match(uniq[1].match)[1]
    /\ away_csv' = split_match(uniq[1].match)[2]
    /\ pc' = "split"
    /\ UNCHANGED <<normVars, parseVars, evalVars>>

NextRoundTrip == ParseQuicktips \/ SplitMatch

SpecRoundTrip == InitRoundTrip /\ [][NextRoundTrip]_vars

\* C11: the label of the cells (home, away) splits into a home part that is the
\* home cell and an away part that is the away cell, each as the label writes it:
\* blanks normalised, dashes spaced, the date prefix dropped from the home cell.
LabelRoundTrip ==
    pc = "split" =>
        /\ home_csv = clean_match_name(html[1][1][1])
        /\ away_csv = normspace(DashFix(html[1][1][2], 1))

(***************************************************************************)
(* Properties of the evaluation.                                           *)
(***************************************************************************)
Score2(k) == ratio[k].h + ratio[k].a

\* C4: find_best_match returns the first record of largest averaged score if that
\* score is at least 70, and otherwise no record; the integer score is the floor of
\* the largest score, and 0 for an empty feed.
BestMatchIsFirstMaximum ==
    pc = "matched" =>
        IF Len(fd_matches) = 0 THEN mdata = None /\ score_match = 0
        ELSE LET top == Greatest({Score2(k) : k \in 1..Len(ratio)})
                 first == Least({k \in 1..Len(ratio) : Score2(k) = top})
             IN /\ 2 * score_match <= top /\ top < 2 * (score_match + 1)
                /\ top >= 2 * FUZZY_THRESHOLD => mdata = first
                /\ top < 2 * FUZZY_THRESHOLD => mdata = None

\* two records tie on the largest score, a half above the threshold, after a lower one
BestMatchTie ==
    /\ pc = "matched"
    /\ Len(ratio) = 3
    /\ Score2(1) < Score2(2) /\ Score2(2) = Score2(3)
    /\ Score2(2) = 2 * FUZZY_THRESHOLD + 1
    /\ mdata = 2

MatchedRows == {k \in 1..Len(out_rows) : out_rows[k].fd # None}

\* C5: a ticket matched to a record whose status is not FINISHED or AWARDED resolves
\* to "?", whatever its goals; matched to a final record with both goals present it
\* resolves to 1, 2 or X by the goals.
OutcomeOnlyWhenFinal ==
    \A k \in MatchedRows :
        LET m == fd_matches[out_rows[k].fd]
        IN /\ m.status \notin FinalStatuses => out_rows[k].outcome = "?"
           /\ m.status \in FinalStatuses /\ m.home # None /\ m.away # None =>
                 out_rows[k].outcome = (IF m.home > m.away THEN "1"
                                        ELSE IF m.home < m.away THEN "2" ELSE "X")

\* a ticket was matched to a scheduled record that carries goals, and resolved to "?"
ScheduledWithGoalsUnresolved ==
    \E k \in MatchedRows :
        LET m == fd_matches[out_rows[k].fd]
        IN /\ m.status = "SCHEDULED" /\ m.home = 1 /\ m.away = 0
           /\ out_rows[k].outcome = "?"

\* C1: a matched ticket is UNRESOLVED when its outcome symbol is "?", CORRECT when the
\* symbol equals the tip and INCORRECT otherwise; bad counts only tickets whose
\* outcome is 1, X or 2.
VerdictFollowsOutcome ==
    /\ \A k \in MatchedRows :
          out_rows[k].symbol = (IF out_rows[k].outcome = "?" THEN SymUnresolved
                                ELSE IF out_rows[k].outcome = out_rows[k].tip
                                     THEN SymCorrect ELSE SymIncorrect)
    /\ bad = Cardinality({k \in 1..Len(out_rows) :
                             out_rows[k].outcome \notin {"?", out_rows[k].tip}})

\* C10: after the loop ok + bad + pend is the number of tickets, and pend the number
\* of UNRESOLVED tickets.
CountersCoverTickets ==
    pc = "done" =>
        /\ ok + bad + pend = ntickets
        /\ pend = Cardinality({k \in 1..Len(out_rows) :
                                  out_rows[k].symbol = SymUnresolved})

(***************************************************************************)
(* Properties of parse_quicktips.                                          *)
(***************************************************************************)
Parsed == pc = "parsed"

\* the row of a page of one table of one row, as the parser reads its cells
TheCells == NormCells(html[1][1])

\* positions of the valid percent cells
ValidCells(cells) == {k \in 1..Len(cells) : parse_percent(cells[k]) # None}

\* the maximal runs <<a, b>> of valid percent cells of at least MinRun cells
ProbRuns(cells) ==
    LET valid == ValidCells(cells)
    IN {ab \in (1..Len(cells)) \X (1..Len(cells)) :
           /\ ab[2] - ab[1] + 1 >= MinRun
           /\ ab[1]..ab[2] \subseteq valid
           /\ ab[1] - 1 \notin valid
           /\ ab[2] + 1 \notin valid}

\* the longest run, the leftmost of the longest
LongestRun(cells) ==
    LET runs == ProbRuns(cells)
    IN CHOOSE r \in runs :
          \A q \in runs :
              \/ q[2] - q[1] < r[2] - r[1]
              \/ q[2] - q[1] = r[2] - r[1] /\ r[1] <= q[1]

HasProbRun(tds) == Len(tds) >= MinCells /\ ProbRuns(NormCells(tds)) # {}

SyntaxCells(cells) ==
    {k \in 1..Len(cells) : \E j \in 1..Len(cells[k]) : PercMatchAt(cells[k], j)}

\* C7: a row of at least 5 cells whose only percent cells are three adjacent ones,
\* one of them out of 0..100, yields a ticket that records 0 for that cell.
OutOfRangeRecordedAsZero ==
    Parsed /\ Len(html[1][1]) >= MinCells =>
        LET cells == TheCells
            syntax == SyntaxCells(cells)
        IN \A a \in 1..(Len(cells) - 2) :
              (syntax = a..(a + 2) /\ ~(syntax \subseteq ValidCells(cells)))
              => /\ Len(uniq) = 1
                 /\ uniq[1].p1 = PercentOrZero(cells[a])
                 /\ uniq[1].pX = PercentOrZero(cells[a + 1])
                 /\ uniq[1].p2 = PercentOrZero(cells[a + 2])

ExpectedTip(p1, pX, p2) ==
    IF p1 >= pX /\ p1 >= p2 THEN "1" ELSE IF pX >= p2 THEN "X" ELSE "2"

\* the output holds a ticket for the row tds whose tip is the largest of its percentages
RowHasArgmaxTicket(tds) ==
    LET cells == NormCells(tds)
        run == LongestRun(cells)
        a == run[1]
        label == extract_teams_from_cells(cells, [n \in 1..(run[2] - a + 1) |-> a + n - 1])
        expected == ExpectedTip(parse_percent(cells[a]), parse_percent(cells[a + 1]),
                                parse_percent(cells[a + 2]))
    IN \E k \in 1..Len(uniq) : uniq[k].match = label /\ uniq[k].tip = expected

\* one of the first ScanRows rows has at least 5 cells and a run of 3 valid percent cells
Accepted(table) == \E r \in 1..Len(table) : r <= ScanRows /\ HasProbRun(table[r])

\* C3: every row with a run of 3 valid percent cells, in a table one of whose first
\* six rows has such a run, yields a ticket whose tip is the largest of p1, pX, p2,
\* 1 before X before 2 on ties.
TipIsArgmax ==
    Parsed =>
        \A t \in 1..Len(html) : Accepted(html[t]) =>
            \A r \in 1..Len(html[t]) :
                HasProbRun(html[t][r]) => RowHasArgmaxTicket(html[t][r])

\* C3 as stated: every row with a run of 3 valid percent cells yields such a ticket.
TipIsArgmaxEveryRow ==
    Parsed =>
        \A t \in 1..Len(html) : \A r \in 1..Len(html[t]) :
            HasProbRun(html[t][r]) => RowHasArgmaxTicket(html[t][r])

\* a ticket whose pX ties with p2 above p1 was emitted with tip X, after a row without a run
TipTieEmitted ==
    /\ Parsed
    /\ Len(html[1]) >= 2 /\ ~HasProbRun(html[1][1])
    /\ \E k \in 1..Len(uniq) :
          uniq[k].pX = uniq[k].p2 /\ uniq[k].pX > uniq[k].p1 /\ uniq[k].tip = "X"

FirstOccurrences(rows) ==
    {k \in 1..Len(rows) : \A j \in 1..(k - 1) : TicketKey(rows[j]) # TicketKey(rows[k])}

RECURSIVE AtPositions(_, _, _)
AtPositions(rows, S, k) ==
    IF k > Len(rows) THEN <<>>
    ELSE (IF k \in S THEN <<rows[k]>> ELSE <<>>) \o AtPositions(rows, S, k + 1)

\* C6: the returned tickets are the first occurrences of each (match, tip), in the
\* original order; no two of them share (match, tip); the pass leaves them unchanged.
DedupeKeepsFirst ==
    Parsed =>
        /\ uniq = AtPositions(rows_out, FirstOccurrences(rows_out), 1)
        /\ \A j, k \in 1..Len(uniq) : TicketKey(uniq[j]) = TicketKey(uniq[k]) => j = k
        /\ UniqueTickets(uniq) = uniq

\* a later ticket with the same (match, tip) and other percentages was dropped from between
\* two kept tickets
DuplicateDropped ==
    /\ Parsed
    /\ Len(uniq) >= 2
    /\ \E j, k, l \in 1..Len(rows_out) :
          /\ j < k /\ k < l
          /\ TicketKey(rows_out[j]) = TicketKey(rows_out[k])
          /\ rows_out[j] # rows_out[k]
          /\ l \in FirstOccurrences(rows_out)

\* positions of the plausible team cells outside the probability run
TeamPositions(cells) ==
    LET run == LongestRun(cells)
    IN {k \in 1..Len(cells) : k \notin run[1]..run[2] /\ plausible_team_text(cells[k])}

\* those that do not repeat, up to case, the plausible cell just before them
KeptPositions(cells) ==
    LET teams == TeamPositions(cells)
    IN {k \in teams :
           \A j \in teams :
               (j < k /\ \A m \in teams : ~(j < m /\ m < k))
               => lower(cells[j]) # lower(cells[k])}

\* C8: the match label is "?" without candidates; otherwise home is the first
\* candidate and away the last candidate that differs from home up to case, or
\* home again when none differs.
MatchLabelFromCandidates ==
    Parsed =>
        /\ Len(uniq) = 1
        /\ LET cells == TheCells
               kept == KeptPositions(cells)
               home == cells[Least(kept)]
               differing == {k \in kept : lower(cells[k]) # lower(home)}
               away == IF differing = {} THEN home ELSE cells[Greatest(differing)]
           IN IF kept = {} THEN uniq[1].match = QuestionMark
              ELSE uniq[1].match = clean_match_name(home \o Separator \o away)

\* one team cell alone gave the label that repeats it
SingleTeamRepeated ==
    /\ Parsed
    /\ Len(uniq) = 1
    /\ Cardinality(TeamPositions(TheCells)) = 1
    /\ uniq[1].match = Ajax \o Separator \o Ajax

(***************************************************************************)
(* Properties of normalize_team_name.                                      *)
(***************************************************************************)
\* C2: normalize_team_name is idempotent: normalizing a normalized name
\* returns it unchanged.
NormalizeIdempotent == pc = "renormalized" => norm2 = norm1

====
